---- MODULE Spec2Model ----
(***************************************************************************)
(* A model of madison-rs: the Mapping Builder (build_madison_mapping), the *)
(* Query/Formatter (generate_madison_structure, do_madison) and the web    *)
(* service's Mapping Store with its refresh task (madison_web::rocket).    *)
(*                                                                         *)
(* A HashMap is modelled by its content (a TLA+ function); wherever the    *)
(* code iterates over a HashMap the iteration order is a nondeterministic  *)
(* choice of a permutation of the keys.                                    *)
(***************************************************************************)
EXTENDS Integers, Sequences, FiniteSets, TLC

VARIABLES
    \* ---- Mapping Builder (one run of build_madison_mapping) ----
    listings,         \* what the Listing Source holds: a sequence of listings, or Unlistable
    key_func,         \* the key function: "codename" or "component"
    versions,         \* per listing: Pending, ScanErr, or the Vec the scan closure returned
    merged_versions,  \* the result of the build: NotBuilt, BuildErr, or a MadisonMapping
    \* ---- Query/Formatter ----
    madison_mapping,  \* the snapshot content the evaluations run on
    packages,         \* the requested package names, in the caller's order
    suite,            \* the group-key filter: NoSuite or a group key
    answers,          \* per evaluation: NoAnswer, or what the call returned
    \* ---- Mapping Store and refresh task ----
    variant,          \* which copy of the service: "lib.rs" or "madison_web.rs"
    system,           \* the listings the service's System currently holds
    store,            \* the MadisonMapping inside the RwLock
    writer,           \* TRUE while the write guard is held
    readers,          \* the handlers holding a read guard
    poisoned,         \* TRUE once a write guard was dropped by a panic
    task_pc,          \* where the spawned task is
    new_mapping,      \* the refresh loop's local new_mapping
    logged,           \* the last line the task logged
    update_result,    \* what the last system.update().await returned
    handler           \* per request handler: its position, request and lines so far

buildVars == <<listings, key_func, versions, merged_versions>>
queryVars == <<madison_mapping, packages, suite, answers>>
webVars == <<variant, system, store, writer, readers, poisoned, task_pc,
             new_mapping, logged, update_result, handler>>
vars == <<buildVars, queryVars, webVars>>

----------------------------------------------------------------------------
(* Bounds *)

MaxRecords == 2    \* package records over all listings of one build
MaxEntries == 3    \* (package, group key, version) entries of a queried mapping
MaxPackages == 2   \* requested package names of one query
MaxHandlers == 2   \* request handlers running at a time

----------------------------------------------------------------------------
(* Strings.  Rust compares Strings byte-wise, so every string the model   *)
(* compares is given by its bytes.                                         *)

Bytes ==
    [ source   |-> <<115, 111, 117, 114, 99, 101>>,
      amd64    |-> <<97, 109, 100, 54, 52>>,
      unknown  |-> <<117, 110, 107, 110, 111, 119, 110, 33>>,
      bionic   |-> <<98, 105, 111, 110, 105, 99>>,
      focal    |-> <<102, 111, 99, 97, 108>>,
      main     |-> <<109, 97, 105, 110>>,
      universe |-> <<117, 110, 105, 118, 101, 114, 115, 101>> ]

\* "unknown!" is no record field name; its bytes are stored under "unknown".
BytesOf(s) == IF s = "unknown!" THEN Bytes["unknown"] ELSE Bytes[s]

RECURSIVE SeqCmp(_, _)
SeqCmp(a, b) ==
    IF a = <<>> /\ b = <<>> THEN "Equal"
    ELSE IF a = <<>> THEN "Less"
    ELSE IF b = <<>> THEN "Greater"
    ELSE IF Head(a) < Head(b) THEN "Less"
    ELSE IF Head(a) > Head(b) THEN "Greater"
    ELSE SeqCmp(Tail(a), Tail(b))

\* String::cmp
StrCmp(s, t) == SeqCmp(BytesOf(s), BytesOf(t))

(* deb_version::compare_versions.  A Debian version is compared part by    *)
(* part, digit runs as numbers, so "1.0" and "1.00" compare Equal although *)
(* they are different strings.  VersionParts is the parse of each version  *)
(* string of the model.                                                    *)
Versions == {"1.0", "1.00", "2.0"}

VersionParts(v) ==
    CASE v = "1.0"  -> <<1, 0>>
      [] v = "1.00" -> <<1, 0>>
      [] v = "2.0"  -> <<2, 0>>

compare_versions(v1, v2) == SeqCmp(VersionParts(v1), VersionParts(v2))

\* The permutations of a finite set: the orders a HashMap may iterate in.
Perms(S) ==
    {p \in [1..Cardinality(S) -> S] : \A i, j \in DOMAIN p : p[i] = p[j] => i = j}

----------------------------------------------------------------------------
(* HashMap operations *)

EmptyMap == [k \in {} |-> {}]

\* HashMap::insert
MapInsert(m, k, v) == [x \in DOMAIN m \cup {k} |-> IF x = k THEN v ELSE m[x]]

\* HashMap::remove
MapRemove(m, k) == [x \in DOMAIN m \ {k} |-> m[x]]

\* m.entry(k).or_insert(HashSet::new()).insert(x)
EntryInsert(m, k, x) ==
    MapInsert(m, k, (IF k \in DOMAIN m THEN m[k] ELSE {}) \cup {x})

----------------------------------------------------------------------------
(* The Listing Source: fapt's System, its listings and their records *)

Names == {"foo", "bar"}
NoSource == "-"       \* bin.source = None
NoArch == "-"         \* downloaded_list.listing.arch = None (a source listing)
NoSuite == "-"        \* suite = None

(* A section that parses to a binary package (pkg.as_bin() is Some): foo   *)
(* names no source, bar is built from the source package foo.              *)
BinRecords ==
    [name : {"foo"}, version : Versions, source : {NoSource}, style : {"bin"}]
    \cup [name : {"bar"}, version : {"1.0", "2.0"}, source : {"foo"}, style : {"bin"}]
\* A section that parses to a source package (pkg.as_bin() is None).
SrcRecords ==
    [name : {"foo"}, version : {"1.0"}, source : {NoSource}, style : {"src"}]
\* A section for which section? or as_pkg()? is an error.
BadRecords ==
    [name : {"foo"}, version : {"1.0"}, source : {NoSource}, style : {"bad"}]
Records == BinRecords \cup SrcRecords \cup BadRecords

(* The listings the configuration (sources list and arches) gives.  The    *)
(* first two share a codename, the first and the third a component.        *)
Descriptors ==
    << [codename |-> "bionic", component |-> "main", arch |-> "amd64"],
       [codename |-> "bionic", component |-> "universe", arch |-> NoArch],
       [codename |-> "focal", component |-> "main", arch |-> "amd64"] >>

DownloadedList(d, opens, records) ==
    [codename |-> d.codename, component |-> d.component, arch |-> d.arch,
     opens |-> opens, records |-> records]

SeqsUpTo(S, n) == UNION {[1..k -> S] : k \in 0..n}

\* What listing d can hold with at most budget records; one whose open fails has none.
ListingsWith(d, budget) ==
    {DownloadedList(d, TRUE, rs) : rs \in SeqsUpTo(Records, budget)}
    \cup {DownloadedList(d, FALSE, <<>>)}

\* The listings of the first n descriptors, with at most budget records together.
RECURSIVE ListingSeqs(_, _)
ListingSeqs(n, budget) ==
    IF n = 0 THEN {<<>>}
    ELSE UNION { {w \o <<l>> : w \in ListingSeqs(n - 1, budget - Len(l.records))} :
                 l \in ListingsWith(Descriptors[n], budget) }

\* What system.listings() can be: an error, or the listings.
Systems ==
    {[listable |-> TRUE, lists |-> w] : w \in ListingSeqs(Len(Descriptors), MaxRecords)}
    \cup {[listable |-> FALSE, lists |-> <<>>]}

KeyFuncs == {"codename", "component"}

\* key_func::codename and key_func::component
ApplyKeyFunc(kf, list) == IF kf = "codename" THEN list.codename ELSE list.component

----------------------------------------------------------------------------
(* build_madison_mapping: the scan of one listing *)

\* PkgTypes with the listing's architecture dropped: the label is always "unknown!".
PkgTypesUnknown(pkg, list) ==
    LET resolved == IF pkg.source # NoSource THEN pkg.source ELSE pkg.name
    IN  EntryInsert(EntryInsert(EmptyMap, resolved, "source"), pkg.name, "unknown!")

\* PkgTypes with "source" put at the record's own name, whatever its source field.
PkgTypesOwnName(pkg, list) ==
    LET arch == IF list.arch # NoArch THEN list.arch ELSE "unknown!"
    IN  EntryInsert(EntryInsert(EmptyMap, pkg.name, "source"), pkg.name, arch)

\* The pkg_types map of one binary record.
PkgTypes(pkg, list) ==
    LET resolved == IF pkg.source # NoSource THEN pkg.source ELSE pkg.name
        arch == IF list.arch # NoArch THEN list.arch ELSE "unknown!"
    IN  EntryInsert(EntryInsert(EmptyMap, resolved, "source"), pkg.name, arch)

\* ScanRecord starting the type set anew when the version advances.
ScanRecordResetsTypes(vs, pkg, list) ==
    LET pt == PkgTypes(pkg, list)
        Occupied(n) ==
            IF compare_versions(pkg.version, vs[n].version) = "Greater"
            THEN [version |-> pkg.version, types |-> pt[n]]
            ELSE [version |-> vs[n].version, types |-> vs[n].types \cup pt[n]]
    IN  [n \in DOMAIN vs \cup DOMAIN pt |->
            IF n \notin DOMAIN pt THEN vs[n]
            ELSE IF n \in DOMAIN vs THEN Occupied(n)
                 ELSE [version |-> pkg.version, types |-> pt[n]]]

\* ScanRecord taking the version of every record, greater or not.
ScanRecordLatest(vs, pkg, list) ==
    LET pt == PkgTypes(pkg, list)
    IN  [n \in DOMAIN vs \cup DOMAIN pt |->
            IF n \notin DOMAIN pt THEN vs[n]
            ELSE IF n \in DOMAIN vs
                 THEN [version |-> pkg.version, types |-> vs[n].types \cup pt[n]]
                 ELSE [version |-> pkg.version, types |-> pt[n]]]

(* The loop over pkg_types: every key of pkg_types updates its own entry   *)
(* of the listing's versions map, so the iterations commute and are taken  *)
(* together.                                                               *)
ScanRecord(vs, pkg, list) ==
    LET pt == PkgTypes(pkg, list)
        Occupied(n) ==
            [version |-> IF compare_versions(pkg.version, vs[n].version) = "Greater"
                         THEN pkg.version ELSE vs[n].version,
             types |-> vs[n].types \cup pt[n]]
        Vacant(n) == [version |-> pkg.version, types |-> pt[n]]
    IN  [n \in DOMAIN vs \cup DOMAIN pt |->
            IF n \notin DOMAIN pt THEN vs[n]
            ELSE IF n \in DOMAIN vs THEN Occupied(n) ELSE Vacant(n)]

\* The loop over the sections of one listing; the first bad section returns Err.
RECURSIVE ScanRecords(_, _, _)
ScanRecords(records, vs, list) ==
    IF records = <<>> THEN [ok |-> TRUE, vs |-> vs]
    ELSE LET pkg == Head(records) IN
         IF pkg.style = "bad" THEN [ok |-> FALSE, vs |-> EmptyMap]
         ELSE IF pkg.style = "bin"
              THEN ScanRecords(Tail(records), ScanRecord(vs, pkg, list), list)
              ELSE ScanRecords(Tail(records), vs, list)

\* The names the scan of a listing ends with; order ranges over their permutations.
ScannedNames(list) ==
    IF list.opens THEN DOMAIN ScanRecords(list.records, EmptyMap, list).vs ELSE {}

\* The closure with its errors swallowed: a listing that fails contributes nothing.
ScanListingLenient(list, kf, order) ==
    LET scan == ScanRecords(list.records, EmptyMap, list)
    IN  [state |-> "ok",
         tuples |-> IF ~list.opens \/ ~scan.ok THEN <<>>
                    ELSE [i \in 1..Len(order) |->
                            <<order[i], ApplyKeyFunc(kf, list), scan.vs[order[i]].version,
                              scan.vs[order[i]].types>>]]

\* The closure giving every tuple the version of the first entry versions.iter() yields.
ScanListingFirstVersion(list, kf, order) ==
    LET scan == ScanRecords(list.records, EmptyMap, list)
    IN  IF ~list.opens \/ ~scan.ok
        THEN [state |-> "err", tuples |-> <<>>]
        ELSE [state |-> "ok",
              tuples |-> [i \in 1..Len(order) |->
                            <<order[i], ApplyKeyFunc(kf, list), scan.vs[order[1]].version,
                              scan.vs[order[i]].types>>]]

(* The closure given to par_iter().map(): Err, or the Vec of               *)
(* (package, key, version, types), in the order versions.iter() yields.    *)
ScanListing(list, kf, order) ==
    LET key == ApplyKeyFunc(kf, list)
        scan == ScanRecords(list.records, EmptyMap, list)
    IN  IF ~list.opens \/ ~scan.ok
        THEN [state |-> "err", tuples |-> <<>>]
        ELSE [state |-> "ok",
              tuples |-> [i \in 1..Len(order) |->
                            <<order[i], key, scan.vs[order[i]].version,
                              scan.vs[order[i]].types>>]]

----------------------------------------------------------------------------
(* build_madison_mapping: the merge loop *)

RECURSIVE Flatten(_)
Flatten(vecs) == IF vecs = <<>> THEN <<>> ELSE Head(vecs) \o Flatten(Tail(vecs))

\* MergeOne with insert in place of extend: the later type set replaces the earlier.
MergeOneInsert(mv, t) ==
    LET package == t[1]
        key == <<t[2], t[3]>>
        pkg_merged_versions == IF package \in DOMAIN mv THEN mv[package] ELSE EmptyMap
    IN  MapInsert(mv, package, MapInsert(pkg_merged_versions, key, t[4]))

\* One iteration of the merge loop.
MergeOne(mv, t) ==
    LET package == t[1]
        key == <<t[2], t[3]>>
        types == t[4]
        pkg_merged_versions == IF package \in DOMAIN mv THEN mv[package] ELSE EmptyMap
    IN  MapInsert(mv, package,
            IF key \in DOMAIN pkg_merged_versions
            THEN MapInsert(pkg_merged_versions, key, pkg_merged_versions[key] \cup types)
            ELSE MapInsert(pkg_merged_versions, key, types))

RECURSIVE MergeLoop(_, _)
MergeLoop(tuples, mv) ==
    IF tuples = <<>> THEN mv ELSE MergeLoop(Tail(tuples), MergeOne(mv, Head(tuples)))

Pending == [state |-> "pending", tuples |-> <<>>]
NotBuilt == [state |-> "none", map |-> EmptyMap]
BuildErr == [state |-> "err", map |-> EmptyMap]
BuildOk(m) == [state |-> "ok", map |-> m]

(* build_madison_mapping as one call: Err when system.listings() or a scan *)
(* is an Err, else the merge of the scans' Vecs; orders[l] is the order    *)
(* the scan of listing l returns its tuples in.                            *)
build_madison_mapping(sys, kf, orders) ==
    LET scans == [l \in DOMAIN sys.lists |-> ScanListing(sys.lists[l], kf, orders[l])]
    IN  IF ~sys.listable \/ \E l \in DOMAIN scans : scans[l].state = "err"
        THEN BuildErr
        ELSE BuildOk(MergeLoop(Flatten([l \in DOMAIN scans |-> scans[l].tuples]),
                               EmptyMap))

\* The orders the scans of a system's listings can return their tuples in.
ScanOrders(sys) ==
    LET names(l) == ScannedNames(sys.lists[l])
    IN  {orders \in [DOMAIN sys.lists -> UNION {Perms(names(l)) : l \in DOMAIN sys.lists}] :
            \A l \in DOMAIN sys.lists : orders[l] \in Perms(names(l))}

\* Everything one call of build_madison_mapping can return.
BuildOutcomes(sys, kf) ==
    {build_madison_mapping(sys, kf, orders) : orders \in ScanOrders(sys)}

----------------------------------------------------------------------------
(* generate_madison_structure and do_madison *)

\* EntryCmp without the tie-break on the group key.
EntryCmpVersionOnly(e1, e2) == compare_versions(e1[2], e2[2])

\* The order of two (group key, version) keys under the closure given to sort_by.
EntryCmp(e1, e2) ==
    LET byVersion == compare_versions(e1[2], e2[2])
    IN  IF byVersion = "Equal" THEN StrCmp(e1[1], e2[1]) ELSE byVersion

\* The filter on the group key, keeping the iteration order.
RECURSIVE FilterSuite(_, _)
FilterSuite(keys, s) ==
    IF keys = <<>> THEN <<>>
    ELSE IF s = NoSuite \/ Head(keys)[1] = s
         THEN <<Head(keys)>> \o FilterSuite(Tail(keys), s)
         ELSE FilterSuite(Tail(keys), s)

(* Vec::sort_by is a stable sort: an element goes after every element that *)
(* does not compare Greater than it.                                       *)
RECURSIVE InsertSorted(_, _)
InsertSorted(sorted, e) ==
    IF sorted = <<>> THEN <<e>>
    ELSE IF EntryCmp(Head(sorted), e) = "Greater"
         THEN <<e>> \o sorted
         ELSE <<Head(sorted)>> \o InsertSorted(Tail(sorted), e)

RECURSIVE SortBy(_, _)
SortBy(todo, sorted) ==
    IF todo = <<>> THEN sorted ELSE SortBy(Tail(todo), InsertSorted(sorted, Head(todo)))

\* arch_parts.sort(): the labels of a set in ascending String order.
RECURSIVE SortLabels(_)
SortLabels(S) ==
    IF S = {} THEN <<>>
    ELSE LET least == CHOOSE x \in S : \A y \in S : StrCmp(x, y) # "Greater"
         IN  <<least>> \o SortLabels(S \ {least})

\* [String]::join(", ") as bytes.
RECURSIVE Join(_)
Join(parts) ==
    IF parts = <<>> THEN <<>>
    ELSE IF Len(parts) = 1 THEN BytesOf(parts[1])
    ELSE BytesOf(parts[1]) \o <<44, 32>> \o Join(Tail(parts))

\* TypeParts with "source" sorted among the other labels.
TypePartsSorted(types) == SortLabels(types)

\* "source" first when present, then the other labels sorted.
TypeParts(types) ==
    (IF "source" \in types THEN <<"source">> ELSE <<>>) \o SortLabels(types \ {"source"})

MadisonOutputRecord(package, version, codename, architectures) ==
    [package |-> package, version |-> version, codename |-> codename,
     architectures |-> architectures]

\* PackageLines without the filter on the group key.
PackageLinesUnfiltered(package, entries, s, order) ==
    LET merged_vec == SortBy(order, <<>>)
    IN  [i \in 1..Len(merged_vec) |->
            MadisonOutputRecord(package, merged_vec[i][2], merged_vec[i][1],
                                Join(TypeParts(entries[merged_vec[i]])))]

\* The lines of one package; order is the iteration order of its entries.
PackageLines(package, entries, s, order) ==
    LET merged_vec == SortBy(FilterSuite(order, s), <<>>)
    IN  [i \in 1..Len(merged_vec) |->
            MadisonOutputRecord(package, merged_vec[i][2], merged_vec[i][1],
                                Join(TypeParts(entries[merged_vec[i]])))]

\* The iteration orders of the inner HashMaps of one instance of a mapping.
IterOrders(mapping) ==
    {iter \in [DOMAIN mapping -> UNION {Perms(DOMAIN mapping[p]) : p \in DOMAIN mapping}] :
        \A p \in DOMAIN mapping : iter[p] \in Perms(DOMAIN mapping[p])}

SeqRange(seq) == {seq[i] : i \in DOMAIN seq}

\* generate_madison_structure giving up when a requested package is not in the mapping.
generate_madison_structure_strict(mapping, pkgs, s, iter) ==
    IF SeqRange(pkgs) \subseteq DOMAIN mapping
    THEN [package \in SeqRange(pkgs) |->
             PackageLines(package, mapping[package], s, iter[package])]
    ELSE EmptyMap

(* generate_madison_structure: the HashMap from each requested package     *)
(* that the mapping has to its lines.  A name requested twice gives the    *)
(* same pair twice, so collect() keeps one.                                *)
generate_madison_structure(mapping, pkgs, s, iter) ==
    [package \in SeqRange(pkgs) \cap DOMAIN mapping |->
        PackageLines(package, mapping[package], s, iter[package])]

\* The loop of do_madison: package_lines.remove(&package), else continue.
RECURSIVE DoMadisonLoop(_, _, _)
DoMadisonLoop(pkgs, package_lines, rows) ==
    IF pkgs = <<>> THEN rows
    ELSE LET package == Head(pkgs) IN
         IF package \in DOMAIN package_lines
         THEN DoMadisonLoop(Tail(pkgs), MapRemove(package_lines, package),
                            rows \o package_lines[package])
         ELSE DoMadisonLoop(Tail(pkgs), package_lines, rows)

\* do_madison, up to the records pushed to the table builder.
do_madison(mapping, pkgs, s, iter) ==
    DoMadisonLoop(pkgs, generate_madison_structure(mapping, pkgs, s, iter), <<>>)

----------------------------------------------------------------------------
(* One run of build_madison_mapping, the scans of the listings in parallel *)

QueryIdle ==
    /\ madison_mapping = EmptyMap
    /\ packages = <<>>
    /\ suite = NoSuite
    /\ answers = <<>>

WebIdle ==
    /\ variant = "lib.rs"
    /\ system = [listable |-> TRUE, lists |-> <<>>]
    /\ store = EmptyMap
    /\ writer = FALSE
    /\ readers = {}
    /\ poisoned = FALSE
    /\ task_pc = "off"
    /\ new_mapping = EmptyMap
    /\ logged = ""
    /\ update_result = "none"
    /\ handler = <<>>

BuildIdle ==
    /\ listings = [listable |-> TRUE, lists |-> <<>>]
    /\ key_func = "codename"
    /\ versions = <<>>
    /\ merged_versions = NotBuilt

InitBuild ==
    /\ listings \in Systems
    /\ key_func \in KeyFuncs
    /\ versions = [l \in DOMAIN listings.lists |-> Pending]
    /\ merged_versions = NotBuilt
    /\ QueryIdle
    /\ WebIdle

\* system.listings()? is an error.
ListingsErr ==
    /\ merged_versions.state = "none"
    /\ ~listings.listable
    /\ merged_versions' = BuildErr
    /\ UNCHANGED <<listings, key_func, versions, queryVars, webVars>>

\* The closure of par_iter().map() on listing l.
Scan(l) ==
    /\ merged_versions.state = "none"
    /\ listings.listable
    /\ versions[l].state = "pending"
    /\ \E order \in Perms(ScannedNames(listings.lists[l])) :
          versions' = [versions EXCEPT
                         ![l] = ScanListing(listings.lists[l], key_func, order)]
    /\ UNCHANGED <<listings, key_func, merged_versions, queryVars, webVars>>

\* collect::<Result<_, _>>()? finds an Err; rayon may stop the other scans early.
CollectErr ==
    /\ merged_versions.state = "none"
    /\ \E l \in DOMAIN versions : versions[l].state = "err"
    /\ merged_versions' = BuildErr
    /\ UNCHANGED <<listings, key_func, versions, queryVars, webVars>>

\* Every scan returned Ok: the merge loop runs and the build returns Ok.
Merge ==
    /\ merged_versions.state = "none"
    /\ listings.listable
    /\ \A l \in DOMAIN versions : versions[l].state = "ok"
    /\ merged_versions' =
          BuildOk(MergeLoop(Flatten([l \in DOMAIN versions |-> versions[l].tuples]),
                            EmptyMap))
    /\ UNCHANGED <<listings, key_func, versions, queryVars, webVars>>

NextBuild ==
    \/ ListingsErr
    \/ \E l \in DOMAIN versions : Scan(l)
    \/ CollectErr
    \/ Merge

SpecBuild == InitBuild /\ [][NextBuild]_vars

----------------------------------------------------------------------------
(* Evaluations of the Query/Formatter on snapshots of equal content.  Each *)
(* evaluation runs on an instance of the mapping with its own iteration    *)
(* order: HashMap::new() seeds every map instance differently.             *)

GroupKeys == {"bionic", "focal"}
RequestNames == Names \cup {"baz"}    \* "baz" is in no mapping
Evals == {1, 2}

\* The entries a queried mapping can have: any of foo, two of bar.
QueryTriples ==
    ({"foo"} \X GroupKeys \X Versions)
    \cup {<<"bar", "bionic", "1.0">>, <<"bar", "focal", "2.0">>}

\* The type set of each of them.
TypesAt(package, key, version) ==
    CASE package = "foo" /\ key = "bionic" /\ version = "1.0"  -> {"source", "amd64"}
      [] package = "foo" /\ key = "bionic" /\ version = "1.00" -> {"amd64"}
      [] package = "foo" /\ key = "bionic" /\ version = "2.0"  -> {"source"}
      [] package = "foo" /\ key = "focal"  /\ version = "1.0"  -> {"source", "amd64", "unknown!"}
      [] package = "foo" /\ key = "focal"  /\ version = "1.00" -> {"unknown!"}
      [] package = "foo" /\ key = "focal"  /\ version = "2.0"  -> {"amd64", "unknown!"}
      [] package = "bar" /\ key = "bionic" /\ version = "1.0"  -> {"source", "unknown!"}
      [] package = "bar" /\ key = "focal"  /\ version = "2.0"  -> {"amd64"}

MappingOf(triples) ==
    [package \in {t[1] : t \in triples} |->
        [kv \in {<<t[2], t[3]>> : t \in {u \in triples : u[1] = package}} |->
            TypesAt(package, kv[1], kv[2])]]

Mappings ==
    {MappingOf(triples) :
        triples \in {S \in SUBSET QueryTriples : Cardinality(S) <= MaxEntries}}

NoAnswer == [kind |-> "none", package_lines |-> EmptyMap, rows |-> <<>>]

InitQuery ==
    /\ madison_mapping \in Mappings
    /\ packages \in SeqsUpTo(RequestNames, MaxPackages)
    /\ suite \in {NoSuite} \cup GroupKeys
    /\ answers = [e \in Evals |-> NoAnswer]
    /\ BuildIdle
    /\ WebIdle

(* One call of do_madison (the text handler, the command line).  Its       *)
(* package_lines is what generate_madison_structure returned, which is     *)
(* also all the HTML handler computes.                                     *)
Query(e) ==
    /\ answers[e].kind = "none"
    /\ \E iter \in IterOrders(madison_mapping) :
          answers' = [answers EXCEPT ![e] =
              [kind |-> "done",
               package_lines |-> generate_madison_structure(madison_mapping, packages,
                                                            suite, iter),
               rows |-> do_madison(madison_mapping, packages, suite, iter)]]
    /\ UNCHANGED <<madison_mapping, packages, suite, buildVars, webVars>>

NextQuery == \E e \in Evals : Query(e)

SpecQuery == InitQuery /\ [][NextQuery]_vars

----------------------------------------------------------------------------
(* The web service: madison_web::rocket's spawned task, the RwLock around  *)
(* the mapping and the request handlers.  variant tells the two copies of  *)
(* the service apart: the module madison_web of lib.rs and the file        *)
(* madison_web.rs, which differ in how the refresh loop takes an error of  *)
(* system.update().                                                        *)

Variants == {"lib.rs", "madison_web.rs"}
Handlers == 1..MaxHandlers

Bin(name, version, source) ==
    [name |-> name, version |-> version, source |-> source, style |-> "bin"]
Bad == [name |-> "foo", version |-> "1.0", source |-> NoSource, style |-> "bad"]

SystemOf(opens, records) ==
    [listable |-> TRUE,
     lists |-> [l \in DOMAIN Descriptors |->
                   DownloadedList(Descriptors[l], opens[l], records[l])]]

\* What the Listing Source holds at some time: two good states and three failing ones.
SysA == SystemOf(<<TRUE, TRUE, TRUE>>,
                 << <<Bin("foo", "1.0", NoSource)>>, <<>>, <<Bin("bar", "1.0", "foo")>> >>)
SysB == SystemOf(<<TRUE, TRUE, TRUE>>,
                 << <<Bin("foo", "2.0", NoSource)>>, <<>>, <<Bin("bar", "2.0", "foo")>> >>)
SysUnreadable == SystemOf(<<TRUE, FALSE, TRUE>>,
                 << <<Bin("foo", "2.0", NoSource)>>, <<>>, <<Bin("bar", "1.0", "foo")>> >>)
SysBadRecord == SystemOf(<<TRUE, TRUE, TRUE>>,
                 << <<Bin("foo", "2.0", NoSource), Bad>>, <<>>, <<>> >>)
SysUnlistable == [listable |-> FALSE, lists |-> <<>>]
WebSystems == {SysA, SysB, SysUnreadable, SysBadRecord, SysUnlistable}

\* What build_madison_mapping can return on each of them, per key function.
WebBuilds == [sys \in WebSystems |-> [kf \in KeyFuncs |-> BuildOutcomes(sys, kf)]]

\* The requests of the model: package.split(" ") and s.
WebPackages == {<<"foo", "bar">>, <<"baz", "foo">>}
WebSuites == {NoSuite}

Idle == [pc |-> "idle", packages |-> <<>>, suite |-> NoSuite, todo |-> {},
         package_lines |-> EmptyMap, snapshot |-> EmptyMap]

\* A write lock that does not wait for the readers.
WriteLockIgnoresReaders == ~writer

\* RwLock::write() returns once no guard is held.
WriteLockFree == ~writer /\ readers = {}
(* RwLock::read() returns once no write guard is held.  std's RwLock       *)
(* guarantees no priority policy: a writer waiting in write() may or may   *)
(* not hold back new readers.  A reader held back is one that has not yet  *)
(* taken its step, so both policies' behaviours are behaviours here.       *)
ReadLockFree == ~writer

InitWeb ==
    /\ variant \in Variants
    /\ system \in WebSystems
    /\ key_func = "codename"
    /\ store = EmptyMap
    /\ writer = FALSE
    /\ readers = {}
    /\ poisoned = FALSE
    /\ task_pc = "spawned"
    /\ new_mapping = EmptyMap
    /\ logged = ""
    /\ update_result = "none"
    /\ handler = [h \in Handlers |-> Idle]
    /\ listings = [listable |-> TRUE, lists |-> <<>>]
    /\ versions = <<>>
    /\ merged_versions = NotBuilt
    /\ QueryIdle

taskFrame == <<variant, key_func, listings, versions, merged_versions, queryVars>>

\* c_lock.write().expect("write access failed") of the initialisation block.
TaskInitLock ==
    /\ task_pc = "spawned"
    /\ WriteLockFree
    /\ writer' = TRUE
    /\ logged' = "Initialising madison mapping"
    /\ task_pc' = "init_build"
    /\ UNCHANGED <<system, store, readers, poisoned, new_mapping, update_result,
                   handler, taskFrame>>

(* *madison_mapping = build_madison_mapping(..).expect(..) under the write *)
(* guard: Ok stores the mapping and the block's end drops the guard; Err   *)
(* panics, the unwinding drops the guard and poisons the lock, and the     *)
(* task is gone.                                                           *)
TaskInitBuild ==
    /\ task_pc = "init_build"
    /\ \E built \in WebBuilds[system][key_func] :
          IF built.state = "ok"
          THEN /\ store' = built.map
               /\ task_pc' = "sleep"
               /\ poisoned' = poisoned
          ELSE /\ store' = store
               /\ task_pc' = "panicked"
               /\ poisoned' = TRUE
    /\ writer' = FALSE
    /\ UNCHANGED <<system, readers, new_mapping, logged, update_result, handler,
                   taskFrame>>

\* sleep(Duration::from_secs(60)).await, then info!("Checking for updates").
TaskSleep ==
    /\ task_pc = "sleep"
    /\ task_pc' = "update"
    /\ logged' = "Checking for updates"
    /\ UNCHANGED <<system, store, writer, readers, poisoned, new_mapping,
                   update_result, handler, taskFrame>>

\* TaskUpdate without the test of did_update: every tick rebuilds.
TaskUpdateAlwaysRebuilds ==
    /\ task_pc = "update"
    /\ \E result \in {"changed", "unchanged", "err"} :
          /\ update_result' = result
          /\ CASE result = "changed" ->
                    /\ system' \in WebSystems
                    /\ logged' = "Update happened: updating mapping"
                    /\ task_pc' = "build"
               [] result = "unchanged" ->
                    /\ system' = system
                    /\ logged' = "Update happened: updating mapping"
                    /\ task_pc' = "build"
               [] result = "err" ->
                    /\ system' \in WebSystems
                    /\ IF variant = "lib.rs"
                       THEN /\ logged' = logged
                            /\ task_pc' = "panicked"
                       ELSE /\ logged' = "Encountered error when updating"
                            /\ task_pc' = "sleep"
    /\ UNCHANGED <<store, writer, readers, poisoned, new_mapping, handler, taskFrame>>

\* TaskUpdate taking the write guard before the rebuild instead of after it.
TaskUpdateLocking ==
    /\ task_pc = "update"
    /\ \E result \in {"changed", "unchanged", "err"} :
          /\ update_result' = result
          /\ CASE result = "changed" ->
                    /\ WriteLockFree
                    /\ writer' = TRUE
                    /\ system' \in WebSystems
                    /\ logged' = "Update happened: updating mapping"
                    /\ task_pc' = "build"
               [] result = "unchanged" ->
                    /\ writer' = writer
                    /\ system' = system
                    /\ logged' = logged
                    /\ task_pc' = "sleep"
               [] result = "err" ->
                    /\ writer' = writer
                    /\ system' \in WebSystems
                    /\ IF variant = "lib.rs"
                       THEN /\ logged' = logged
                            /\ task_pc' = "panicked"
                       ELSE /\ logged' = "Encountered error when updating"
                            /\ task_pc' = "sleep"
    /\ UNCHANGED <<store, readers, poisoned, new_mapping, handler, taskFrame>>

(* system.update().await and what the loop does with its result.  Ok(true) *)
(* leaves the System with listings that may differ in any way; an Err may  *)
(* have replaced some of them already.  lib.rs unwraps the result, so an   *)
(* Err panics and the task is gone; madison_web.rs logs it and takes       *)
(* did_update = false.                                                     *)
TaskUpdate ==
    /\ task_pc = "update"
    /\ \E result \in {"changed", "unchanged", "err"} :
          /\ update_result' = result
          /\ CASE result = "changed" ->
                    /\ system' \in WebSystems
                    /\ logged' = "Update happened: updating mapping"
                    /\ task_pc' = "build"
               [] result = "unchanged" ->
                    /\ system' = system
                    /\ logged' = logged
                    /\ task_pc' = "sleep"
               [] result = "err" ->
                    /\ system' \in WebSystems
                    /\ IF variant = "lib.rs"
                       THEN /\ logged' = logged
                            /\ task_pc' = "panicked"
                       ELSE /\ logged' = "Encountered error when updating"
                            /\ task_pc' = "sleep"
    /\ UNCHANGED <<store, writer, readers, poisoned, new_mapping, handler, taskFrame>>

\* TaskRebuild with unwrap_or_default() in place of expect(): an Err gives an empty mapping.
TaskRebuildDefault ==
    /\ task_pc = "build"
    /\ \E built \in WebBuilds[system][key_func] :
          new_mapping' = IF built.state = "ok" THEN built.map ELSE EmptyMap
    /\ task_pc' = "swap"
    /\ UNCHANGED <<system, store, writer, readers, poisoned, logged, update_result,
                   handler, taskFrame>>

(* let new_mapping = build_madison_mapping(..).expect(..), no guard held:  *)
(* an Err panics and the task is gone.                                     *)
TaskRebuild ==
    /\ task_pc = "build"
    /\ \E built \in WebBuilds[system][key_func] :
          IF built.state = "ok"
          THEN /\ new_mapping' = built.map
               /\ task_pc' = "swap"
          ELSE /\ new_mapping' = new_mapping
               /\ task_pc' = "panicked"
    /\ UNCHANGED <<system, store, writer, readers, poisoned, logged, update_result,
                   handler, taskFrame>>

\* c_lock.write().expect("write access failed") of the refresh loop.
TaskSwapLock ==
    /\ task_pc = "swap"
    /\ WriteLockFree
    /\ IF poisoned
       THEN /\ task_pc' = "panicked"
            /\ writer' = writer
       ELSE /\ task_pc' = "swap_store"
            /\ writer' = TRUE
    /\ UNCHANGED <<system, store, readers, poisoned, new_mapping, logged,
                   update_result, handler, taskFrame>>

\* TaskSwapStore with the guard bound outside the loop: it is not dropped.
TaskSwapStoreKeepsGuard ==
    /\ task_pc = "swap_store"
    /\ store' = new_mapping
    /\ task_pc' = "sleep"
    /\ UNCHANGED <<system, writer, readers, poisoned, new_mapping, logged, update_result,
                   handler, taskFrame>>

\* *madison_mapping = new_mapping, and the guard is dropped at the end of the if.
TaskSwapStore ==
    /\ task_pc = "swap_store"
    /\ store' = new_mapping
    /\ writer' = FALSE
    /\ task_pc' = "sleep"
    /\ UNCHANGED <<system, readers, poisoned, new_mapping, logged, update_result,
                   handler, taskFrame>>

handlerFrame == <<variant, system, store, writer, poisoned, task_pc, new_mapping,
                  logged, update_result, buildVars, queryVars>>

(* A request reaches madison or madison_html:                              *)
(* state.madison_mapping.read().expect("read access failed").  On a        *)
(* poisoned lock read() is an Err and the handler panics.                  *)
HandlerRead(h) ==
    /\ handler[h].pc \in {"idle", "answered", "failed"}
    /\ ReadLockFree
    /\ \E pkgs \in WebPackages, s \in WebSuites :
          IF poisoned
          THEN /\ handler' = [handler EXCEPT ![h] = [Idle EXCEPT !.pc = "failed"]]
               /\ readers' = readers
          ELSE /\ handler' = [handler EXCEPT ![h] =
                     [pc |-> "reading", packages |-> pkgs, suite |-> s,
                      todo |-> DOMAIN pkgs, package_lines |-> EmptyMap,
                      snapshot |-> store]]
               /\ readers' = readers \cup {h}
    /\ UNCHANGED handlerFrame

(* One item of the par_iter of generate_madison_structure: the lookup of   *)
(* packages[i] in the mapping behind the read guard, and its lines.        *)
HandlerLookup(h, i) ==
    /\ handler[h].pc = "reading"
    /\ i \in handler[h].todo
    /\ LET package == handler[h].packages[i] IN
       IF package \in DOMAIN store
       THEN \E order \in Perms(DOMAIN store[package]) :
               handler' = [handler EXCEPT
                   ![h].todo = @ \ {i},
                   ![h].package_lines =
                       MapInsert(@, package,
                                 PackageLines(package, store[package],
                                              handler[h].suite, order))]
       ELSE handler' = [handler EXCEPT ![h].todo = @ \ {i}]
    /\ UNCHANGED <<readers, handlerFrame>>

\* The handler returns its response and the read guard is dropped.
HandlerRespond(h) ==
    /\ handler[h].pc = "reading"
    /\ handler[h].todo = {}
    /\ handler' = [handler EXCEPT ![h] = [Idle EXCEPT !.pc = "answered"]]
    /\ readers' = readers \ {h}
    /\ UNCHANGED handlerFrame

Next ==
    \/ TaskInitLock
    \/ TaskInitBuild
    \/ TaskSleep
    \/ TaskUpdate
    \/ TaskRebuild
    \/ TaskSwapLock
    \/ TaskSwapStore
    \/ \E h \in Handlers : HandlerRead(h)
    \/ \E h \in Handlers : \E i \in DOMAIN handler[h].packages : HandlerLookup(h, i)
    \/ \E h \in Handlers : HandlerRespond(h)

Spec == InitWeb /\ [][Next]_vars

(* The scheduling the runtime gives: the spawned task is one thread of     *)
(* control that takes its next step whenever it can again and again:       *)
(* tokio runs a ready task, sleep and update return, and write() returns   *)
(* if the lock is free again and again.  Requests arrive or not, so the    *)
(* handlers get no fairness here; that readers release their read access   *)
(* is an assumption stated where it is used.                               *)
TaskNext ==
    \/ TaskInitLock
    \/ TaskInitBuild
    \/ TaskSleep
    \/ TaskUpdate
    \/ TaskRebuild
    \/ TaskSwapLock
    \/ TaskSwapStore

FairSpec == Spec /\ SF_vars(TaskNext)

----------------------------------------------------------------------------
(* Properties of the merge loop (SpecBuild) *)

\* Every tuple some scan returned.
EmittedTuples ==
    UNION { {versions[l].tuples[i] : i \in DOMAIN versions[l].tuples} :
            l \in DOMAIN versions }

\* The union of the type sets the scans returned for one triple.
EmittedTypes(package, key, version) ==
    UNION {t[4] : t \in {u \in EmittedTuples :
                            u[1] = package /\ u[2] = key /\ u[3] = version}}

(* C1: after a successful build, a (package, group_key, version) triple is *)
(* in the mapping iff some listing's scan returned it, and its type set is *)
(* the union of the type sets the scans returned for exactly that triple.  *)
C1_UnionCorrect ==
    merged_versions.state = "ok" =>
        LET map == merged_versions.map IN
        /\ \A t \in EmittedTuples :
              t[1] \in DOMAIN map /\ <<t[2], t[3]>> \in DOMAIN map[t[1]]
        /\ \A package \in DOMAIN map :
              /\ DOMAIN map[package] # {}
              /\ \A kv \in DOMAIN map[package] :
                    /\ \E t \in EmittedTuples :
                          t[1] = package /\ t[2] = kv[1] /\ t[3] = kv[2]
                    /\ map[package][kv] = EmittedTypes(package, kv[1], kv[2])

\* Two listings returned the same triple with different type sets, and the build merged them.
C1_Witness ==
    /\ merged_versions.state = "ok"
    /\ \E l1, l2 \in DOMAIN versions :
          \E i \in DOMAIN versions[l1].tuples, j \in DOMAIN versions[l2].tuples :
             LET t == versions[l1].tuples[i]
                 u == versions[l2].tuples[j]
             IN  /\ l1 # l2
                 /\ t[1] = u[1] /\ t[2] = u[2] /\ t[3] = u[3]
                 /\ t[4] # u[4]

\* The per-listing Vecs, once every scan has returned Ok.
ScanResults == [l \in DOMAIN versions |-> versions[l].tuples]
AllScansOk == \A l \in DOMAIN versions : versions[l].state = "ok"

(* C6: the merge is commutative and associative: merging the per-listing   *)
(* results in any order of the listings, or merging a first group of       *)
(* listings into the result of a second group in either order, gives the   *)
(* same mapping.                                                           *)
C6_MergeOrderFree ==
    (listings.listable /\ AllScansOk) =>
        LET n == Len(ScanResults)
            whole == MergeLoop(Flatten(ScanResults), EmptyMap)
        IN  /\ \A perm \in Perms(1..n) :
                  MergeLoop(Flatten([i \in 1..n |-> ScanResults[perm[i]]]), EmptyMap)
                     = whole
            /\ \A k \in 0..n :
                  LET first == Flatten(SubSeq(ScanResults, 1, k))
                      second == Flatten(SubSeq(ScanResults, k + 1, n))
                  IN  /\ MergeLoop(second, MergeLoop(first, EmptyMap)) = whole
                      /\ MergeLoop(first, MergeLoop(second, EmptyMap)) = whole
            /\ merged_versions.state = "ok" => merged_versions.map = whole

\* Two listings whose results differ were merged, and they share a triple.
C6_Witness ==
    /\ merged_versions.state = "ok"
    /\ Len(ScanResults) >= 2
    /\ \E l1, l2 \in DOMAIN versions :
          /\ l1 < l2
          /\ versions[l1].tuples # versions[l2].tuples
          /\ \E i \in DOMAIN versions[l1].tuples, j \in DOMAIN versions[l2].tuples :
                /\ versions[l1].tuples[i][1] = versions[l2].tuples[j][1]
                /\ versions[l1].tuples[i][2] = versions[l2].tuples[j][2]
                /\ versions[l1].tuples[i][3] = versions[l2].tuples[j][3]
                /\ ~(versions[l2].tuples[j][4] \subseteq versions[l1].tuples[i][4])
                /\ ~(versions[l1].tuples[i][4] \subseteq versions[l2].tuples[j][4])

(* C16: building again from the same listings, records and key function   *)
(* gives the same mapping: when a run has returned, in whatever order its  *)
(* scans ran and returned their tuples, its result is the one result that  *)
(* every other run of build_madison_mapping on these listings returns.     *)
C16_RebuildIdempotent ==
    merged_versions.state # "none" =>
        BuildOutcomes(listings, key_func) = {merged_versions}

\* A build succeeded whose scan of one listing returned two names at different versions, foo last.
C16_Witness ==
    /\ merged_versions.state = "ok"
    /\ \E l \in DOMAIN versions :
          /\ Len(versions[l].tuples) = 2
          /\ versions[l].tuples[2][1] = "foo"
          /\ versions[l].tuples[1][3] # versions[l].tuples[2][3]

----------------------------------------------------------------------------
(* Properties of the scan of one listing (SpecBuild) *)

\* The source name the spec resolves for a record, and the label of a listing.
ResolvedSource(r) == IF r.style = "bin" /\ r.source # NoSource THEN r.source ELSE r.name
ArchLabel(list) == IF list.arch # NoArch THEN list.arch ELSE "unknown!"

\* The labels the spec has record r of a listing contribute at name n.
Contribution(r, list, n) ==
    (IF ResolvedSource(r) = n THEN {"source"} ELSE {})
    \cup (IF r.name = n THEN {ArchLabel(list)} ELSE {})

\* The listings whose scan has returned Ok, and the tuples and records of one.
Scanned == {l \in DOMAIN versions : versions[l].state = "ok"}
TuplesOf(l) == {versions[l].tuples[i] : i \in DOMAIN versions[l].tuples}
RecordsAt(l) == DOMAIN listings.lists[l].records
RecordOf(l, i) == listings.lists[l].records[i]
\* The positions of the binary records of listing l that contribute at name n.
Contributors(l, n) ==
    {i \in RecordsAt(l) :
        RecordOf(l, i).style = "bin" /\ Contribution(RecordOf(l, i), listings.lists[l], n) # {}}

(* C19: every record of every listing, those of source listings included,  *)
(* contributes with its own version "source" at its resolved source name   *)
(* and the listing's architecture, or "unknown!", at its own name.         *)
C19_EveryRecordContributes ==
    \A l \in Scanned : \A i \in RecordsAt(l) :
        LET r == RecordOf(l, i) IN
        \A n \in {ResolvedSource(r), r.name} :
            \E t \in TuplesOf(l) :
                /\ t[1] = n
                /\ t[2] = ApplyKeyFunc(key_func, listings.lists[l])
                /\ t[3] = r.version
                /\ Contribution(r, listings.lists[l], n) \subseteq t[4]

(* C19, amended: every binary record of every listing contributes "source" *)
(* at its resolved source name and the listing's architecture, or          *)
(* "unknown!", at its own name, to the one tuple the listing returns for   *)
(* that name, whose version is the record's when no other record of the    *)
(* listing contributes at that name and is never less than the record's;   *)
(* a record that is not a binary package contributes nothing; so a binary  *)
(* foo that names no source, alone in an amd64 listing at a version, gives *)
(* an entry with "source" and "amd64" at that version.                     *)
C19_BinaryRecordsContribute ==
    /\ \A l \in Scanned :
          LET list == listings.lists[l] IN
          /\ \A i \in RecordsAt(l) :
                LET r == RecordOf(l, i) IN
                r.style = "bin" =>
                   \A n \in {ResolvedSource(r), r.name} :
                      \E t \in TuplesOf(l) :
                         /\ t[1] = n
                         /\ t[2] = ApplyKeyFunc(key_func, list)
                         /\ Contribution(r, list, n) \subseteq t[4]
                         /\ compare_versions(t[3], r.version) # "Less"
                         /\ Contributors(l, n) = {i} => t[3] = r.version
          /\ \A t \in TuplesOf(l) :
                /\ Contributors(l, t[1]) # {}
                /\ t[4] = UNION {Contribution(RecordOf(l, i), list, t[1]) :
                                    i \in Contributors(l, t[1])}
    /\ merged_versions.state = "ok" =>
          \A l \in Scanned :
             LET list == listings.lists[l] IN
             (list.arch = "amd64" /\ Len(list.records) = 1 /\ list.records[1].style = "bin"
                 /\ list.records[1].source = NoSource) =>
                LET r == list.records[1]
                    key == <<ApplyKeyFunc(key_func, list), r.version>>
                IN  /\ r.name \in DOMAIN merged_versions.map
                    /\ key \in DOMAIN merged_versions.map[r.name]
                    /\ {"source", "amd64"} \subseteq merged_versions.map[r.name][key]

\* foo 1.0 is in the source listing of bionic and in its amd64 listing; the built entry is {source, amd64}.
C19_Witness ==
    /\ merged_versions.state = "ok"
    /\ key_func = "codename"
    /\ Len(listings.lists[2].records) = 1
    /\ listings.lists[2].records[1].style = "src"
    /\ listings.lists[2].arch = NoArch
    /\ versions[2].tuples = <<>>
    /\ listings.lists[1].records = <<[name |-> "foo", version |-> "1.0",
                                      source |-> NoSource, style |-> "bin"]>>
    /\ merged_versions.map["foo"][<<"bionic", "1.0">>] = {"source", "amd64"}

(* C20: the scan of a listing returns each name once; the version of a    *)
(* name's tuple is that of the first contributing record that no           *)
(* contributing record exceeds (the greatest, replaced only by a strictly  *)
(* greater one), and its type set is the union of what every contributing  *)
(* record contributed at that name, lower and later versions included.     *)
C20_OneTuplePerName ==
    \A l \in Scanned :
        LET list == listings.lists[l]
            tuples == versions[l].tuples
        IN  /\ \A i, j \in DOMAIN tuples : tuples[i][1] = tuples[j][1] => i = j
            /\ {tuples[i][1] : i \in DOMAIN tuples}
                  = {n \in Names : Contributors(l, n) # {}}
            /\ \A i \in DOMAIN tuples :
                  LET t == tuples[i]
                      from == Contributors(l, t[1])
                  IN  /\ \E g \in from :
                            /\ RecordOf(l, g).version = t[3]
                            /\ \A j \in from :
                                  compare_versions(RecordOf(l, j).version, t[3]) # "Greater"
                            /\ \A j \in from :
                                  j < g => compare_versions(RecordOf(l, j).version, t[3]) = "Less"
                      /\ t[4] = UNION {Contribution(RecordOf(l, j), list, t[1]) : j \in from}

\* foo's tuple has the version of an earlier record of bar and the label of a later, lower record of foo.
C20_Witness ==
    \E l \in Scanned :
        /\ Len(listings.lists[l].records) = 2
        /\ RecordOf(l, 1).name = "bar"
        /\ RecordOf(l, 1).version = "2.0"
        /\ RecordOf(l, 2).name = "foo"
        /\ RecordOf(l, 2).version = "1.0"
        /\ RecordOf(l, 2).style = "bin"
        /\ listings.lists[l].arch = "amd64"
        /\ \E t \in TuplesOf(l) : t[1] = "foo" /\ t[3] = "2.0" /\ t[4] = {"source", "amd64"}

\* The listings with group key k under the key function of the run.
ListingsAt(k) ==
    {l \in DOMAIN listings.lists : ApplyKeyFunc(key_func, listings.lists[l]) = k}

(* C24: a mapping that build_madison_mapping returns is well formed: every *)
(* package has an entry, every entry a non-empty type set, every group key *)
(* is the key function's value on a scanned listing, and every label is    *)
(* "source", the architecture of a scanned listing, or "unknown!", the     *)
(* last only when a listing that contributes to the package under that     *)
(* group key declares no architecture.                                     *)
C24_WellFormed ==
    merged_versions.state = "ok" =>
        LET map == merged_versions.map IN
        \A package \in DOMAIN map :
            /\ DOMAIN map[package] # {}
            /\ \A kv \in DOMAIN map[package] :
                  /\ map[package][kv] # {}
                  /\ ListingsAt(kv[1]) # {}
                  /\ \A label \in map[package][kv] :
                        \/ label = "source"
                        \/ \E l \in DOMAIN listings.lists :
                              listings.lists[l].arch # NoArch /\ label = listings.lists[l].arch
                        \/ /\ label = "unknown!"
                           /\ \E l \in ListingsAt(kv[1]) :
                                 /\ listings.lists[l].arch = NoArch
                                 /\ Contributors(l, package) # {}

\* A built mapping has an entry with "unknown!" from a listing without architecture and one with "amd64".
C24_Witness ==
    /\ merged_versions.state = "ok"
    /\ \E p1, p2 \in DOMAIN merged_versions.map :
          \E kv1 \in DOMAIN merged_versions.map[p1], kv2 \in DOMAIN merged_versions.map[p2] :
             /\ "unknown!" \in merged_versions.map[p1][kv1]
             /\ "amd64" \in merged_versions.map[p2][kv2]
             /\ "unknown!" \notin merged_versions.map[p2][kv2]

\* The listings whose scan has returned, and the scan of one with its records permuted.
Returned == {l \in DOMAIN versions : versions[l].state # "pending"}
PermutedScan(l, perm) ==
    LET list == listings.lists[l]
    IN  IF ~list.opens THEN [ok |-> FALSE, vs |-> EmptyMap]
        ELSE ScanRecords([i \in DOMAIN list.records |-> list.records[perm[i]]],
                         EmptyMap, list)

(* C25: the scan of a listing does not depend on the order of its records: *)
(* with the records in any other order it fails or succeeds alike and      *)
(* returns the same set of (package, group key, version, types) tuples.    *)
C25_RecordOrderFree ==
    \A l \in Returned : \A perm \in Perms(RecordsAt(l)) :
        LET scan == PermutedScan(l, perm)
            key == ApplyKeyFunc(key_func, listings.lists[l])
        IN  /\ scan.ok <=> versions[l].state = "ok"
            /\ scan.ok =>
                  {<<n, key, scan.vs[n].version, scan.vs[n].types>> : n \in DOMAIN scan.vs}
                     = TuplesOf(l)

\* Two records that contribute at name n carry different versions that compare Equal to v.
TiedAt(l, n, v) ==
    \E i, j \in Contributors(l, n) :
        /\ RecordOf(l, i).version # RecordOf(l, j).version
        /\ compare_versions(RecordOf(l, i).version, v) = "Equal"
        /\ compare_versions(RecordOf(l, j).version, v) = "Equal"

(* C25, amended: with the records of a listing in any other order the scan *)
(* fails or succeeds alike and returns the same names under the same group *)
(* key with the same type sets and with versions that compare Equal; the   *)
(* version strings are the same too unless two records that contribute at  *)
(* the name carry different strings that compare Equal to the greatest.    *)
C25_RecordOrderFreeUpToTies ==
    \A l \in Returned : \A perm \in Perms(RecordsAt(l)) :
        LET scan == PermutedScan(l, perm)
        IN  /\ scan.ok <=> versions[l].state = "ok"
            /\ scan.ok =>
                  /\ DOMAIN scan.vs = {t[1] : t \in TuplesOf(l)}
                  /\ \A t \in TuplesOf(l) :
                        /\ t[2] = ApplyKeyFunc(key_func, listings.lists[l])
                        /\ scan.vs[t[1]].types = t[4]
                        /\ compare_versions(scan.vs[t[1]].version, t[3]) = "Equal"
                        /\ ~TiedAt(l, t[1], t[3]) => scan.vs[t[1]].version = t[3]

\* A listing holds foo at 1.0 and then at 1.00, and its scan returned foo at 1.0 with both records' labels.
C25_Witness ==
    \E l \in Scanned :
        /\ Len(listings.lists[l].records) = 2
        /\ RecordOf(l, 1).name = "foo" /\ RecordOf(l, 1).version = "1.0"
        /\ RecordOf(l, 2).name = "foo" /\ RecordOf(l, 2).version = "1.00"
        /\ RecordOf(l, 1).style = "bin" /\ RecordOf(l, 2).style = "bin"
        /\ \E t \in TuplesOf(l) : t[1] = "foo" /\ t[3] = "1.0"

----------------------------------------------------------------------------
(* Properties of the Query/Formatter (SpecQuery) *)

Done(e) == answers[e].kind = "done"

\* The rows of a request if every requested name contributed its lines.
RowsPerRequestedName(e) ==
    Flatten([i \in 1..Len(packages) |->
                IF packages[i] \in DOMAIN answers[e].package_lines
                THEN answers[e].package_lines[packages[i]]
                ELSE <<>>])

(* C5: the output is the concatenation, over the requested names in the    *)
(* caller's order, of each name's sorted rows; a name requested k times    *)
(* contributes its rows k times.                                           *)
C5_RowsPerRequestedName ==
    \A e \in Evals : Done(e) => answers[e].rows = RowsPerRequestedName(e)

\* Row i may stand before row j under the order the spec gives.
InOrder(r1, r2) ==
    LET byVersion == compare_versions(r1.version, r2.version)
    IN  /\ byVersion # "Greater"
        /\ byVersion = "Equal" => StrCmp(r1.codename, r2.codename) # "Greater"

(* C9: the rows of one package are sorted ascending by version, and rows   *)
(* whose versions compare equal are ordered by group key ascending, in the *)
(* structure generate_madison_structure returns and in the rows of         *)
(* do_madison, for every mapping and every filter.                         *)
C9_RowsSorted ==
    \A e \in Evals : Done(e) =>
        /\ \A p \in DOMAIN answers[e].package_lines :
              LET lines == answers[e].package_lines[p]
              IN  \A i, j \in DOMAIN lines : i < j => InOrder(lines[i], lines[j])
        /\ LET rows == answers[e].rows
           IN  \A i, j \in DOMAIN rows :
                  (i < j /\ rows[i].package = rows[j].package) => InOrder(rows[i], rows[j])

\* Three rows of one package: two versions that compare equal under two group keys, and a greater one.
C9_Witness ==
    \E e \in Evals :
        /\ Done(e)
        /\ \E p \in DOMAIN answers[e].package_lines :
              LET lines == answers[e].package_lines[p]
              IN  /\ Len(lines) = 3
                  /\ compare_versions(lines[1].version, lines[2].version) = "Equal"
                  /\ lines[1].codename # lines[2].codename
                  /\ compare_versions(lines[2].version, lines[3].version) = "Less"
                  /\ Len(answers[e].rows) >= 3

(* C10: two evaluations on equal snapshot content, equal package list and  *)
(* equal filter return the same rows in the same order, whatever the       *)
(* iteration order of the hash maps.                                       *)
C10_SameAnswer ==
    (Done(1) /\ Done(2)) => answers[1] = answers[2]

\* The (group key, version) entries of a package that a filter keeps.
Kept(package) ==
    {kv \in DOMAIN madison_mapping[package] : suite = NoSuite \/ kv[1] = suite}

(* C11: with a filter, every returned row has the filter's group key and   *)
(* every entry of a requested package with that group key is returned;     *)
(* without one, every entry of every requested package that the mapping    *)
(* has is returned; each kept entry gives one line of its package.         *)
C11_FilterCorrect ==
    \A e \in Evals : Done(e) =>
        LET lines == answers[e].package_lines
            rows == answers[e].rows
            requested == SeqRange(packages) \cap DOMAIN madison_mapping
        IN  /\ DOMAIN lines = requested
            /\ \A p \in requested :
                  /\ {<<lines[p][i].codename, lines[p][i].version>> : i \in DOMAIN lines[p]}
                        = Kept(p)
                  /\ Len(lines[p]) = Cardinality(Kept(p))
            /\ suite # NoSuite => \A i \in DOMAIN rows : rows[i].codename = suite
            /\ {<<rows[i].package, rows[i].codename, rows[i].version>> : i \in DOMAIN rows}
                  = UNION {{<<p, kv[1], kv[2]>> : kv \in Kept(p)} : p \in requested}

\* A filter kept one entry of a requested package and dropped another.
C11_Witness ==
    \E e \in Evals :
        /\ Done(e)
        /\ suite # NoSuite
        /\ Len(answers[e].rows) >= 1
        /\ \E i \in DOMAIN packages :
              /\ packages[i] \in DOMAIN madison_mapping
              /\ Kept(packages[i]) # {}
              /\ Kept(packages[i]) # DOMAIN madison_mapping[packages[i]]

\* The parts of a rendered type list: its bytes split at every ", ".
RECURSIVE SplitParts(_, _)
SplitParts(bytes, part) ==
    IF bytes = <<>> THEN <<part>>
    ELSE IF Len(bytes) >= 2 /\ bytes[1] = 44 /\ bytes[2] = 32
         THEN <<part>> \o SplitParts(SubSeq(bytes, 3, Len(bytes)), <<>>)
         ELSE SplitParts(Tail(bytes), Append(part, Head(bytes)))

\* The type set of the mapping entry a row was rendered from.
TypesOfRow(r) == madison_mapping[r.package][<<r.codename, r.version>>]

\* A rendered type list is the rendering the spec gives of a type set.
Rendered(architectures, types) ==
    LET parts == SplitParts(architectures, <<>>)
    IN  /\ Len(parts) = Cardinality(types)
        /\ {parts[i] : i \in DOMAIN parts} = {BytesOf(label) : label \in types}
        /\ "source" \in types => parts[1] = BytesOf("source")
        /\ \A i, j \in DOMAIN parts :
              (i < j /\ parts[i] # BytesOf("source")) => SeqCmp(parts[i], parts[j]) = "Less"

(* C12: the rendered type list of a row holds every label of the entry's   *)
(* type set exactly once, "source" first when it is in the set, then the   *)
(* other labels in ascending byte order, joined with ", ".                 *)
C12_Rendering ==
    \A e \in Evals : Done(e) =>
        /\ \A p \in DOMAIN answers[e].package_lines :
              \A i \in DOMAIN answers[e].package_lines[p] :
                 LET r == answers[e].package_lines[p][i]
                 IN  Rendered(r.architectures, TypesOfRow(r))
        /\ \A i \in DOMAIN answers[e].rows :
              Rendered(answers[e].rows[i].architectures, TypesOfRow(answers[e].rows[i]))

\* A row was rendered from "source" and two labels on either side of it in byte order.
C12_Witness ==
    \E e \in Evals :
        /\ Done(e)
        /\ \E i \in DOMAIN answers[e].rows :
              /\ TypesOfRow(answers[e].rows[i]) = {"source", "amd64", "unknown!"}
              /\ answers[e].rows[i].architectures
                    = BytesOf("source") \o <<44, 32>> \o BytesOf("amd64")
                        \o <<44, 32>> \o BytesOf("unknown!")

InMapping(name) == name \in DOMAIN madison_mapping

\* The request without the names the mapping does not have.
PresentPackages == SelectSeq(packages, InMapping)

(* C13: a requested name that the mapping does not have gives no line and  *)
(* no row, the call still returns, and the lines and rows are those of the *)
(* same request without that name.                                         *)
C13_MissingPackage ==
    \A e \in Evals : Done(e) =>
        /\ DOMAIN answers[e].package_lines \subseteq DOMAIN madison_mapping
        /\ \A i \in DOMAIN answers[e].rows : InMapping(answers[e].rows[i].package)
        /\ \E iter \in IterOrders(madison_mapping) :
              /\ answers[e].package_lines
                    = generate_madison_structure(madison_mapping, PresentPackages, suite, iter)
              /\ answers[e].rows
                    = do_madison(madison_mapping, PresentPackages, suite, iter)

\* A name the mapping does not have was requested before one that gave rows.
C13_Witness ==
    \E e \in Evals :
        /\ Done(e)
        /\ Len(packages) = 2
        /\ ~InMapping(packages[1])
        /\ InMapping(packages[2])
        /\ Len(answers[e].rows) >= 2
        /\ answers[e].rows[1].package = packages[2]

----------------------------------------------------------------------------
(* Properties of the web service (Spec) *)

\* A listing cannot be opened or a record cannot be parsed.
BuildFails(sys) ==
    \/ ~sys.listable
    \/ \E l \in DOMAIN sys.lists :
          \/ ~sys.lists[l].opens
          \/ \E i \in DOMAIN sys.lists[l].records : sys.lists[l].records[i].style = "bad"

\* The empty mapping the store starts with and the mappings a whole build returns.
CompleteMappings ==
    [kf \in KeyFuncs |->
        {EmptyMap} \cup
        {built.map : built \in {b \in UNION {WebBuilds[sys][kf] : sys \in WebSystems} :
                                   b.state = "ok"}}]

(* C2: a handler computes all its lines from one snapshot, the mapping the *)
(* store held when the handler took its read guard, and that snapshot is   *)
(* the initial mapping or the whole result of one build; no line comes     *)
(* from a mapping the refresh task stored meanwhile.                       *)
C2_OneSnapshot ==
    \A h \in Handlers : handler[h].pc = "reading" =>
        LET hs == handler[h] IN
        /\ hs.snapshot \in CompleteMappings[key_func]
        /\ \A i \in DOMAIN hs.packages \ hs.todo :
              LET package == hs.packages[i] IN
              IF package \in DOMAIN hs.snapshot
              THEN /\ package \in DOMAIN hs.package_lines
                   /\ hs.package_lines[package] \in
                         {PackageLines(package, hs.snapshot[package], hs.suite, order) :
                             order \in Perms(DOMAIN hs.snapshot[package])}
              ELSE package \notin DOMAIN hs.package_lines

\* A handler is between two lookups while the refresh task waits to store a different mapping.
C2_Witness ==
    \E h \in Handlers :
        /\ handler[h].pc = "reading"
        /\ handler[h].todo # {}
        /\ handler[h].package_lines # EmptyMap
        /\ task_pc = "swap"
        /\ new_mapping # store
        /\ store # EmptyMap

(* C3: a rebuild of the refresh loop that fails is not fatal: the store    *)
(* keeps its snapshot and the loop goes on to its next sleep.              *)
C3_RebuildFailureNotFatal ==
    [][(task_pc = "build" /\ BuildErr \in WebBuilds[system][key_func])
          => (store' = store /\ task_pc' \in {"build", "sleep"})]_vars

(* C4: a query never fails, in whatever state the service is.              *)
C4_QueriesNeverFail ==
    \A h \in Handlers : handler[h].pc # "failed"

\* The initial build has returned Ok: the store holds its first built mapping.
Ready == task_pc \notin {"spawned", "init_build"} /\ ~poisoned

(* C14: a query answered before the first successful build has completed   *)
(* neither fails nor returns rows: it reads the empty mapping the store    *)
(* was created with.                                                       *)
C14_EmptyBeforeFirstBuild ==
    ~Ready =>
        \A h \in Handlers :
            /\ handler[h].pc # "failed"
            /\ handler[h].pc = "reading" =>
                  /\ handler[h].snapshot = EmptyMap
                  /\ handler[h].package_lines = EmptyMap

\* Every answer a request can get from a mapping, over the iteration orders of its maps.
AnswersOf(mapping, pkgs, s) ==
    {do_madison(mapping, pkgs, s, iter) : iter \in IterOrders(mapping)}

\* A mapping gives each request of the model one answer.
OneAnswer ==
    [mapping \in UNION {CompleteMappings[kf] : kf \in KeyFuncs} |->
        \A pkgs \in WebPackages, s \in WebSuites :
            Cardinality(AnswersOf(mapping, pkgs, s)) = 1]

(* C15: no request is answered from an earlier snapshot: while a handler   *)
(* computes, and when it answers, the mapping it computes from is the one  *)
(* the store holds, and its lines are those of that mapping; a tick that   *)
(* reported no change leaves the store as it was, and that mapping gives   *)
(* each (packages, filter) key one answer, the same before and after.      *)
C15_NoStaleAnswer ==
    [][/\ \A h \in Handlers :
             handler[h].pc = "reading" =>
                /\ handler[h].snapshot = store
                /\ handler'[h].pc = "answered" =>
                      /\ DOMAIN handler[h].package_lines
                            = SeqRange(handler[h].packages) \cap DOMAIN store
                      /\ \A p \in DOMAIN handler[h].package_lines :
                            \E order \in Perms(DOMAIN store[p]) :
                               handler[h].package_lines[p]
                                  = PackageLines(p, store[p], handler[h].suite, order)
       /\ (task_pc = "update" /\ task_pc' = "sleep" /\ update_result' = "unchanged") =>
             /\ store' = store
             /\ OneAnswer[store]]_vars

\* A request is answered from the mapping a swap stored, after a later tick reported no change.
C15_Witness ==
    /\ update_result = "unchanged"
    /\ task_pc = "sleep"
    /\ new_mapping # EmptyMap
    /\ store = new_mapping
    /\ \E h \in Handlers :
          /\ handler[h].pc = "reading"
          /\ handler[h].todo = {}
          /\ handler[h].snapshot = new_mapping
          /\ handler[h].package_lines # EmptyMap

\* The mappings a successful build returns.
BuiltMappings ==
    [kf \in KeyFuncs |->
        {built.map : built \in {b \in UNION {WebBuilds[sys][kf] : sys \in WebSystems} :
                                   b.state = "ok"}}]

(* C17: the store becomes Ready once, by the step in which the initial     *)
(* build returns Ok; until then it holds the empty mapping it was created  *)
(* with; from then on it stays Ready and holds, before and after every     *)
(* step, the whole result of a successful build.                           *)
C17_ReadyOnce ==
    [][/\ ~Ready => store = EmptyMap
       /\ (~Ready /\ Ready') => (task_pc = "init_build" /\ store' \in BuiltMappings[key_func])
       /\ Ready => /\ Ready'
                   /\ store \in BuiltMappings[key_func]
                   /\ store' \in BuiltMappings[key_func]]_vars

\* The refresh loop has replaced the mapping of the initial build by that of a rebuild.
C17_Witness ==
    /\ Ready
    /\ task_pc = "sleep"
    /\ update_result = "changed"
    /\ store = new_mapping
    /\ store = CHOOSE m \in BuiltMappings["codename"] :
                   \E b \in WebBuilds[SysB]["codename"] : b.map = m

(* C18: the write lock is never held while build_madison_mapping runs,     *)
(* for the initial build as well as for the rebuilds of the refresh loop.  *)
C18_NoLockDuringBuild ==
    task_pc \in {"init_build", "build"} => ~writer

(* C18, amended: the write lock is held while build_madison_mapping runs   *)
(* only for the initial build; a rebuild of the refresh loop runs with no  *)
(* lock held, and outside the initial build the task holds the write lock  *)
(* only between taking it for the swap and storing the new mapping.        *)
C18_LockOnlyForInitAndSwap ==
    /\ task_pc = "build" => ~writer
    /\ writer <=> task_pc \in {"init_build", "swap_store"}

\* A handler holds its read guard and computes while a rebuild runs.
C18_Witness ==
    /\ task_pc = "build"
    /\ ~writer
    /\ store # EmptyMap
    /\ \E h \in Handlers :
          /\ h \in readers
          /\ handler[h].pc = "reading"
          /\ handler[h].package_lines # EmptyMap

(* C21: a tick whose change check reports no change rebuilds nothing: the  *)
(* sleep and the check leave the store and new_mapping as they were, the   *)
(* write lock is not held before or after either step, and the loop goes   *)
(* from the check straight to its next sleep.                              *)
C21_NoChangeTick ==
    [][/\ (task_pc = "sleep" /\ task_pc' # "sleep") =>
             /\ task_pc' = "update"
             /\ store' = store /\ new_mapping' = new_mapping
             /\ ~writer /\ ~writer'
       /\ (task_pc = "update" /\ task_pc' # "update" /\ update_result' = "unchanged") =>
             /\ task_pc' = "sleep"
             /\ store' = store /\ new_mapping' = new_mapping
             /\ ~writer /\ ~writer']_vars

\* The first tick after the initial build reported no change; nothing was rebuilt.
C21_Witness ==
    /\ task_pc = "sleep"
    /\ update_result = "unchanged"
    /\ logged = "Checking for updates"
    /\ store # EmptyMap
    /\ new_mapping = EmptyMap
    /\ ~writer

C23_NoLockWhileWaiting ==
    task_pc \in {"sleep", "update"} => ~writer

\* After a swap the task awaits the next change check while a handler holds a read guard on the new mapping.
C23_Witness ==
    /\ task_pc = "update"
    /\ update_result = "changed"
    /\ store = new_mapping
    /\ store # EmptyMap
    /\ ~writer
    /\ \E h \in Handlers : h \in readers /\ handler[h].snapshot = new_mapping

(* C7: when a listing cannot be opened or a record cannot be parsed,       *)
(* build_madison_mapping returns an error and no mapping, and the step of  *)
(* the task that runs this build leaves the store as it was and has        *)
(* nothing to store later.                                                 *)
C7_NoPartialMap ==
    [][BuildFails(system) =>
          /\ WebBuilds[system][key_func] = {BuildErr}
          /\ task_pc \in {"init_build", "build"} =>
                /\ store' = store
                /\ new_mapping' = new_mapping
                /\ task_pc' \in {task_pc, "panicked"}]_vars

\* A rebuild of the refresh loop failed on the changed listings and the store kept its mapping.
C7_Witness ==
    /\ task_pc = "panicked"
    /\ update_result = "changed"
    /\ BuildFails(system)
    /\ system.listable
    /\ store # EmptyMap

(* C8: an error of system.update() is logged and not fatal: the tick       *)
(* leaves the store as it was, attempts no rebuild, and the loop goes on   *)
(* to its next sleep.                                                      *)
C8_UpdateErrorNotFatal ==
    [][(task_pc = "update" /\ task_pc' # "update" /\ update_result' = "err")
          => /\ store' = store
             /\ new_mapping' = new_mapping
             /\ task_pc' = "sleep"
             /\ logged' = "Encountered error when updating"]_vars

====
